---- MODULE Spec2Model ----
(***************************************************************************)
(* Model of the vring poller (src/vring_poller.c): one poll thread that    *)
(* drains completed tasks from a vring and dispatches new tasks taken from *)
(* a lock-less input ring, the producers that submit tasks (asynchronously *)
(* or synchronously), and the thread that starts, stops and destroys the   *)
(* poller.                                                                 *)
(*                                                                         *)
(* Threads are interleaved at the granularity of the statements that touch *)
(* shared memory (poller fields, the input ring, the vring, the eventfd,   *)
(* the rendezvous mutex/condition variable).                               *)
(***************************************************************************)
EXTENDS Integers, Sequences, FiniteSets

\* ------------------------------------------------------------------ bounds
\* total number of vring_submit_task / vring_submit_task_sync calls
MaxCalls == 3
\* number of producer threads
NProd == 2
\* usable capacity of the input ring (INRING_SIZE in the source, scaled down)
InringCap == 2
\* number of tasks the vring can hold (submitted and not yet fetched back)
VringSize == 1
\* total number of start/stop/destroy calls of the controlling thread
MaxCtl == 3
\* total number of environment faults: failing poll(), failing
\* pthread_create(), spurious wake-up of pthread_cond_wait()
MaxFaults == 1
\* total number of calls and faults of all kinds in one behaviour
MaxOps == 5
\* the same total for the behaviours checked under fairness
LiveOps == 4
\* the same total for the behaviours with a restart of the poller
RestartOps == 6

NULL == 0
Tasks == 1..MaxCalls
Calls == 1..MaxCalls
Producers == 1..NProd

VARIABLES
    SLEEPY_POLL,  \* compile-time mode: 0 = eventfd wait, 1 = usleep polling
    tid,          \* poller->tid (0 = no thread)
    end,          \* poller->end
    inring,       \* poller->inring: sequence of task references
    cb,           \* task->cb   for every task: "null", "user" or "sync"
    arg,          \* task->arg  for every task: the context of the call
    avail,        \* vring: tasks handed to the ring and not yet completed
    used,         \* vring: completed tasks not yet fetched by vring_get_task
    callfd,       \* vring->callfd: 1 when the event counter is non-zero, else 0
    ppc,          \* position of the poll thread in vring_poll ("done" = no thread)
    task,         \* vring_poll local: task
    pend_intask,  \* vring_poll local: pend_intask
    taskp,        \* vring_poll local: taskp
    worked,       \* vring_poll local: worked
    cpc,          \* position of the controlling thread
    cfn,          \* API function the controlling thread called last
    cret,         \* return value of the last vring_poller_start
    nctl,         \* number of start/stop/destroy calls made
    destroyed,    \* vring_poller_destroy has freed the poller
    upc,          \* position of every producer thread
    utask,        \* task of the producer's current/last call
    uctx,         \* context (call number) of the producer's current/last call
    ukind,        \* "async" or "sync": function of the current/last call
    uret,         \* return value of the producer's last call
    mtx,          \* rendezvous mutex of every call: "free", "caller", "poller"
    ncalls,       \* number of submit calls made
    nfaults,      \* number of environment faults so far
    opsLimit,     \* calls and faults allowed in this behaviour (never changes)
    \* ---- history (observation only, never read by the program's actions)
    enqLog,       \* <<task, cb, arg>> of every successful enqueue, in order
    deqLog,       \* tasks in the order the poll loop dequeued them
    accLog,       \* tasks in the order the vring accepted them
    fired,        \* per context: <<task, cb>> of every callback invoked with it
    iterLog,      \* what the current loop iteration has done so far: "got" or
                  \* "none" (fetch), "cb", "retry", "deq", "put", "wait"
    run0,         \* <<Len(deqLog), Len(accLog)>> when the current loop started
    spurious,     \* calls in progress whose pthread_cond_wait woke unsignalled
    waits,        \* idle waits entered since the last stop request
    nthreads,     \* poll threads created and not yet returned from vring_poll
    spawned,      \* number of successful pthread_create calls
    startSaw,     \* poller->tid as read by the last vring_poller_start
    pollFailed,   \* the last loop created left because poll() failed, and
                  \* vring_poller_start has not got past line 168 since
    lost,         \* tasks that were in pend_intask of a loop that has exited
                  \* when the next loop was created
    left          \* tasks that were in the input ring or in pend_intask when
                  \* the last loop exited

\* calls and faults so far
Ops == ncalls + nctl + nfaults

pvars == <<tid, end, inring, cb, arg, avail, used, callfd>>
lvars == <<ppc, task, pend_intask, taskp, worked>>
cvars == <<cpc, cfn, cret, nctl, destroyed>>
uvars == <<upc, utask, uctx, ukind, uret, mtx, ncalls>>
hvars == <<enqLog, deqLog, accLog, fired, iterLog, run0, spurious, waits>>
tvars == <<nthreads, spawned, startSaw, pollFailed, lost, left>>
vars == <<SLEEPY_POLL, opsLimit, pvars, lvars, cvars, uvars, nfaults, hvars, tvars>>

\* ------------------------------------------------------- external contracts
\* vring_put_task: 0 when the ring has room, non-zero when it is full
vring_put_task_rc(av, us) == IF Cardinality(av) + Len(us) < VringSize THEN 0 ELSE -1

\* vring_get_task: one finished task, or NULL
vring_get_task_res(us) == IF us = <<>> THEN NULL ELSE Head(us)

\* rte_ring_mp_enqueue: 0 on success, non-zero when the ring is full
rte_ring_mp_enqueue_rc(q) == IF Len(q) < InringCap THEN 0 ELSE -1

\* rte_ring_sc_dequeue: 0 when an object was dequeued, non-zero when empty
rte_ring_sc_dequeue_rc(q) == IF q # <<>> THEN 0 ELSE -1

\* the device finishes one of the tasks it holds, in any order
DeviceComplete ==
    /\ \E t \in avail :
          /\ avail' = avail \ {t}
          /\ used' = Append(used, t)
    /\ UNCHANGED <<SLEEPY_POLL, opsLimit, tvars, nfaults, tid, end, inring, cb, arg, callfd,
                   lvars, cvars, uvars, hvars>>

\* ------------------------------------------------------------------ helpers
\* the stack frame of call c (holding its mutex and condition variable) exists
FrameLive(c) == \E p \in Producers : uctx[p] = c /\ upc[p] # "idle"

\* the producer blocked in pthread_cond_wait of call c, if any
Waiters(c) == {p \in Producers : uctx[p] = c /\ upc[p] = "sync_blocked"}

\* tasks a producer may submit: never successfully enqueued, not in use
FreshTasks == {t \in Tasks :
                 /\ \A i \in 1..Len(enqLog) : enqLog[i][1] # t
                 /\ \A p \in Producers : upc[p] = "idle" \/ utask[p] # t}

Min(S) == CHOOSE x \in S : \A y \in S : x <= y

Range(q) == {q[i] : i \in 1..Len(q)}

\* the state after vring_poller_create, lines 56-80, with no thread started
InitState(limit) ==
    /\ SLEEPY_POLL \in {0, 1}
    /\ opsLimit = limit
    /\ tid = 0
    /\ end = FALSE
    /\ inring = <<>>
    /\ cb = [t \in Tasks |-> "null"]
    /\ arg = [t \in Tasks |-> NULL]
    /\ avail = {}
    /\ used = <<>>
    /\ callfd = 0
    /\ ppc = "done"
    /\ task = NULL
    /\ pend_intask = NULL
    /\ taskp = NULL
    /\ worked = FALSE
    /\ cpc = "idle"
    /\ cfn = "none"
    /\ cret = 0
    /\ nctl = 0
    /\ destroyed = FALSE
    /\ upc = [p \in Producers |-> "idle"]
    /\ utask = [p \in Producers |-> NULL]
    /\ uctx = [p \in Producers |-> NULL]
    /\ ukind = [p \in Producers |-> "async"]
    /\ uret = [p \in Producers |-> 0]
    /\ mtx = [c \in Calls |-> "free"]
    /\ ncalls = 0
    /\ nfaults = 0
    /\ enqLog = <<>>
    /\ deqLog = <<>>
    /\ accLog = <<>>
    /\ fired = [c \in Calls |-> <<>>]
    /\ iterLog = <<>>
    /\ run0 = <<0, 0>>
    /\ spurious = {}
    /\ waits = 0
    /\ nthreads = 0
    /\ spawned = 0
    /\ startSaw = 0
    /\ pollFailed = FALSE
    /\ lost = {}
    /\ left = {}

Init == InitState(MaxOps)

LiveInit == InitState(LiveOps)

RestartInit == InitState(RestartOps)

\* ------------------------------------------------------ vring_poll (thread)
\* PollTop with the two halves of the loop body swapped: new tasks are
\* looked at before finished ones
PollTop_AdmitFirst ==
    /\ ppc = "top"
    /\ IF end
         THEN /\ ppc' = "exit"
              /\ UNCHANGED worked
         ELSE /\ ppc' = "admit"
              /\ worked' = FALSE
    /\ UNCHANGED <<SLEEPY_POLL, opsLimit, tvars, nfaults, pvars, task, pend_intask, taskp, cvars, uvars,
                   hvars>>

\* PollTop with the termination flag not tested
PollTop_IgnoreEnd ==
    /\ ppc = "top"
    /\ ppc' = "get"
    /\ worked' = FALSE
    /\ UNCHANGED <<SLEEPY_POLL, opsLimit, tvars, nfaults, pvars, task, pend_intask, taskp, cvars, uvars,
                   hvars>>

\* line 104: while (!self->end) { worked = false;
PollTop ==
    /\ ppc = "top"
    /\ IF end
         THEN /\ ppc' = "exit"
              /\ UNCHANGED worked
         ELSE /\ ppc' = "get"
              /\ worked' = FALSE
    /\ UNCHANGED <<SLEEPY_POLL, opsLimit, tvars, nfaults, pvars, task, pend_intask, taskp, cvars, uvars,
                   hvars>>

\* PollGet with the finished task left in the vring
PollGet_NoPop ==
    /\ ppc = "get"
    /\ task' = vring_get_task_res(used)
    /\ ppc' = IF task' # NULL THEN "cb" ELSE "admit"
    /\ iterLog' = Append(iterLog, IF task' # NULL THEN "got" ELSE "none")
    /\ UNCHANGED <<SLEEPY_POLL, opsLimit, tvars, nfaults, tid, end, inring, cb, arg, avail, used,
                   callfd, pend_intask, taskp, worked, cvars, uvars,
                   enqLog, deqLog, accLog, fired, run0, spurious, waits>>

\* line 108-109: task = vring_get_task(vring); if (task != NULL)
PollGet ==
    /\ ppc = "get"
    /\ task' = vring_get_task_res(used)
    /\ used' = IF used = <<>> THEN used ELSE Tail(used)
    /\ ppc' = IF task' # NULL THEN "cb" ELSE "admit"
    /\ iterLog' = Append(iterLog, IF task' # NULL THEN "got" ELSE "none")
    /\ UNCHANGED <<SLEEPY_POLL, opsLimit, tvars, nfaults, tid, end, inring, cb, arg, avail, callfd,
                   pend_intask, taskp, worked, cvars, uvars,
                   enqLog, deqLog, accLog, fired, run0, spurious, waits>>

\* line 110-112: if (task->cb != NULL) task->cb(task, task->arg);
\* A user callback is fast and does not block (comment at lines 206-207);
\* vring_submit_sync_callback continues at "cb_lock".
PollCallback ==
    /\ ppc = "cb"
    /\ IF cb[task] = "null"
         THEN /\ ppc' = "retry"
              /\ UNCHANGED <<fired, iterLog>>
         ELSE /\ fired' = [fired EXCEPT ![arg[task]] =
                                   Append(@, <<task, cb[task]>>)]
              /\ iterLog' = Append(iterLog, "cb")
              /\ ppc' = IF cb[task] = "sync" THEN "cb_lock" ELSE "retry"
    /\ UNCHANGED <<SLEEPY_POLL, opsLimit, tvars, nfaults, pvars, task, pend_intask, taskp, worked,
                   cvars, uvars, enqLog, deqLog, accLog, run0, spurious, waits>>

\* line 245: pthread_mutex_lock(sync_arg->mtx);
\* When the caller's frame is gone the pointers dangle: the callback either
\* gets through on stale memory or never returns.
PollCbLock ==
    /\ ppc = "cb_lock"
    /\ IF FrameLive(arg[task])
         THEN /\ mtx[arg[task]] = "free"
              /\ mtx' = [mtx EXCEPT ![arg[task]] = "poller"]
              /\ ppc' = "cb_signal"
         ELSE /\ ppc' \in {"retry", "cb_hung"}
              /\ UNCHANGED mtx
    /\ UNCHANGED <<SLEEPY_POLL, opsLimit, tvars, nfaults, pvars, task, pend_intask, taskp, worked,
                   cvars, upc, utask, uctx, ukind, uret, ncalls, hvars>>

\* lines 246-247: pthread_cond_signal(sync_arg->cv);
\* pthread_mutex_unlock(sync_arg->mtx);  Nothing can observe the mutex
\* between the two calls: a woken waiter needs the mutex to continue.
PollCbSignal ==
    /\ ppc = "cb_signal"
    /\ upc' = [p \in Producers |->
                 IF p \in Waiters(arg[task]) THEN "sync_woken" ELSE upc[p]]
    /\ mtx' = [mtx EXCEPT ![arg[task]] = "free"]
    /\ ppc' = "retry"
    /\ UNCHANGED <<SLEEPY_POLL, opsLimit, tvars, nfaults, pvars, task, pend_intask, taskp, worked,
                   cvars, utask, uctx, ukind, uret, ncalls, hvars>>

\* PollRetry with the retry of the pending task left out
PollRetry_NoRetry ==
    /\ ppc = "retry"
    /\ worked' = TRUE
    /\ task' = NULL
    /\ ppc' = "admit"
    /\ UNCHANGED <<SLEEPY_POLL, opsLimit, tvars, nfaults, tid, end, inring, cb, arg, avail,
                   used, callfd, pend_intask, taskp, cvars, uvars, hvars>>

\* PollRetry with the slot not cleared after a successful retry
PollRetry_NoClear ==
    /\ ppc = "retry"
    /\ IF pend_intask # NULL
         THEN /\ iterLog' = Append(iterLog, "retry")
              /\ IF vring_put_task_rc(avail, used) = 0
                   THEN /\ avail' = avail \cup {pend_intask}
                        /\ accLog' = Append(accLog, pend_intask)
                   ELSE UNCHANGED <<avail, accLog>>
         ELSE UNCHANGED <<avail, accLog, iterLog>>
    /\ worked' = TRUE
    /\ task' = NULL
    /\ ppc' = "admit"
    /\ UNCHANGED <<SLEEPY_POLL, opsLimit, tvars, nfaults, tid, end, inring, cb, arg, used, callfd,
                   pend_intask, taskp, cvars, uvars,
                   enqLog, deqLog, fired, run0, spurious, waits>>

\* line 113-118: retry the pending task after a completion; worked = true.
\* task is not read again before line 108 assigns it: it is cleared here.
PollRetry ==
    /\ ppc = "retry"
    /\ IF pend_intask # NULL
         THEN /\ iterLog' = Append(iterLog, "retry")
              /\ IF vring_put_task_rc(avail, used) = 0
                   THEN /\ avail' = avail \cup {pend_intask}
                        /\ accLog' = Append(accLog, pend_intask)
                        /\ pend_intask' = NULL
                   ELSE UNCHANGED <<avail, accLog, pend_intask>>
         ELSE UNCHANGED <<avail, accLog, pend_intask, iterLog>>
    /\ worked' = TRUE
    /\ task' = NULL
    /\ ppc' = "admit"
    /\ UNCHANGED <<SLEEPY_POLL, opsLimit, tvars, nfaults, tid, end, inring, cb, arg, used, callfd,
                   taskp, cvars, uvars,
                   enqLog, deqLog, fired, run0, spurious, waits>>

\* lines 135-153, reached with the value of worked given: with work done the
\* loop goes back to line 104, without it the thread enters
\* poll(&fds, 1, 1000) or usleep(SLEEPY_POLL)
AfterBody(w) ==
    IF w
      THEN /\ ppc' = "top"
           /\ iterLog' = <<>>
           /\ UNCHANGED waits
      ELSE /\ ppc' = IF SLEEPY_POLL = 0 THEN "poll" ELSE "sleep"
           /\ iterLog' = Append(iterLog, "wait")
           /\ waits' = IF end THEN waits + 1 ELSE waits

\* PollAdmit with the test of the pending slot left out
PollAdmit_NoPendCheck ==
    /\ ppc = "admit"
    /\ IF rte_ring_sc_dequeue_rc(inring) = 0
         THEN /\ taskp' = Head(inring)
              /\ inring' = Tail(inring)
              /\ deqLog' = Append(deqLog, Head(inring))
              /\ iterLog' = Append(iterLog, "deq")
              /\ ppc' = "put"
              /\ UNCHANGED waits
         ELSE /\ AfterBody(worked)
              /\ UNCHANGED <<taskp, inring, deqLog>>
    /\ UNCHANGED <<SLEEPY_POLL, opsLimit, tvars, nfaults, tid, end, cb, arg, avail, used, callfd,
                   task, pend_intask, worked, cvars, uvars,
                   enqLog, accLog, fired, run0, spurious>>

\* line 122-126: if (pend_intask == NULL) rc = rte_ring_sc_dequeue(...);
\* without a dequeue the iteration body ends here (line 135)
PollAdmit ==
    /\ ppc = "admit"
    /\ IF pend_intask = NULL /\ rte_ring_sc_dequeue_rc(inring) = 0
         THEN /\ taskp' = Head(inring)
              /\ inring' = Tail(inring)
              /\ deqLog' = Append(deqLog, Head(inring))
              /\ iterLog' = Append(iterLog, "deq")
              /\ ppc' = "put"
              /\ UNCHANGED waits
         ELSE /\ AfterBody(worked)
              /\ UNCHANGED <<taskp, inring, deqLog>>
    /\ UNCHANGED <<SLEEPY_POLL, opsLimit, tvars, nfaults, tid, end, cb, arg, avail, used, callfd,
                   task, pend_intask, worked, cvars, uvars,
                   enqLog, accLog, fired, run0, spurious>>

\* PollPut with worked set only when the vring accepted the task
PollPut_NoWorked ==
    /\ ppc = "put"
    /\ IF vring_put_task_rc(avail, used) = 0
         THEN /\ avail' = avail \cup {taskp}
              /\ accLog' = Append(accLog, taskp)
              /\ worked' = TRUE
              /\ AfterBody(TRUE)
              /\ UNCHANGED pend_intask
         ELSE /\ pend_intask' = taskp
              /\ AfterBody(worked)
              /\ UNCHANGED <<avail, accLog, worked>>
    /\ taskp' = NULL
    /\ UNCHANGED <<SLEEPY_POLL, opsLimit, tvars, nfaults, tid, end, inring, cb, arg, used, callfd,
                   task, cvars, uvars,
                   enqLog, deqLog, fired, run0, spurious>>

\* PollPut with a refused task dropped instead of kept for a retry
PollPut_Drop ==
    /\ ppc = "put"
    /\ IF vring_put_task_rc(avail, used) = 0
         THEN /\ avail' = avail \cup {taskp}
              /\ accLog' = Append(accLog, taskp)
         ELSE UNCHANGED <<avail, accLog>>
    /\ worked' = TRUE
    /\ taskp' = NULL
    /\ AfterBody(TRUE)
    /\ UNCHANGED <<SLEEPY_POLL, opsLimit, tvars, nfaults, tid, end, inring, cb, arg, used, callfd,
                   task, pend_intask, cvars, uvars,
                   enqLog, deqLog, fired, run0, spurious>>

\* line 127-130: rc = vring_put_task(taskp); if (rc != 0) pend_intask = taskp;
\* worked = true; then line 135.  taskp goes out of scope at line 131: it is
\* cleared here.
PollPut ==
    /\ ppc = "put"
    /\ IF vring_put_task_rc(avail, used) = 0
         THEN /\ avail' = avail \cup {taskp}
              /\ accLog' = Append(accLog, taskp)
              /\ UNCHANGED pend_intask
         ELSE /\ pend_intask' = taskp
              /\ UNCHANGED <<avail, accLog>>
    /\ worked' = TRUE
    /\ taskp' = NULL
    /\ AfterBody(TRUE)
    /\ UNCHANGED <<SLEEPY_POLL, opsLimit, tvars, nfaults, tid, end, inring, cb, arg, used, callfd,
                   task, cvars, uvars,
                   enqLog, deqLog, fired, run0, spurious>>

\* PollWake with the loop continuing after a failed poll() (no break)
PollWake_FailContinue ==
    /\ ppc = "poll"
    /\ \/ /\ callfd > 0
          /\ callfd' = 0
          /\ ppc' = "top"
          /\ UNCHANGED <<nfaults, pollFailed>>
       \/ /\ callfd = 0
          /\ ppc' = "top"
          /\ UNCHANGED <<callfd, nfaults, pollFailed>>
       \/ /\ nfaults < MaxFaults /\ Ops < opsLimit
          /\ nfaults' = nfaults + 1
          /\ pollFailed' = TRUE
          /\ ppc' = "top"
          /\ UNCHANGED callfd
    /\ iterLog' = <<>>
    /\ UNCHANGED <<SLEEPY_POLL, opsLimit, nthreads, spawned, startSaw, lost, left, tid, end, inring, cb, arg, avail, used,
                   task, pend_intask, taskp, worked, cvars, uvars,
                   enqLog, deqLog, accLog, fired, run0, spurious, waits>>

\* line 144-151: poll returns: readable (the counter is read and reset),
\* timeout (only while the counter is zero), or failure (break)
PollWake ==
    /\ ppc = "poll"
    /\ \/ /\ callfd > 0
          /\ callfd' = 0
          /\ ppc' = "top"
          /\ UNCHANGED <<nfaults, pollFailed>>
       \/ /\ callfd = 0
          /\ ppc' = "top"
          /\ UNCHANGED <<callfd, nfaults, pollFailed>>
       \/ /\ nfaults < MaxFaults /\ Ops < opsLimit
          /\ nfaults' = nfaults + 1
          /\ pollFailed' = TRUE
          /\ ppc' = "exit"
          /\ UNCHANGED callfd
    /\ iterLog' = <<>>
    /\ UNCHANGED <<SLEEPY_POLL, opsLimit, nthreads, spawned, startSaw, lost, left, tid, end, inring, cb, arg, avail, used,
                   task, pend_intask, taskp, worked, cvars, uvars,
                   enqLog, deqLog, accLog, fired, run0, spurious, waits>>

\* line 153: usleep(SLEEPY_POLL) returns
PollSleep ==
    /\ ppc = "sleep"
    /\ ppc' = "top"
    /\ iterLog' = <<>>
    /\ UNCHANGED <<SLEEPY_POLL, opsLimit, tvars, nfaults, pvars, task, pend_intask, taskp, worked,
                   cvars, uvars,
                   enqLog, deqLog, accLog, fired, run0, spurious, waits>>

\* line 158-159: self->tid = 0; return (NULL);
PollExit ==
    /\ ppc = "exit"
    /\ tid' = 0
    /\ ppc' = "done"
    /\ nthreads' = nthreads - 1
    /\ left' = Range(inring) \cup ({pend_intask} \ {NULL})
    /\ UNCHANGED <<SLEEPY_POLL, opsLimit, spawned, startSaw, pollFailed, lost, nfaults,
                   end, inring, cb, arg, avail, used, callfd,
                   task, pend_intask, taskp, worked, cvars, uvars, hvars>>

vring_poll ==
    \/ PollTop \/ PollGet \/ PollCallback \/ PollCbLock \/ PollCbSignal
    \/ PollRetry \/ PollAdmit \/ PollPut
    \/ PollWake \/ PollSleep \/ PollExit

\* --------------------------------------------- start / stop / destroy
\* The controlling thread makes its calls one after the other.

\* vring_poller_start without the test of tid at line 168
vring_poller_start_NoTidCheck ==
    /\ cpc = "idle" /\ ~destroyed /\ nctl < MaxCtl /\ Ops < opsLimit
    /\ nctl' = nctl + 1
    /\ cfn' = "start"
    /\ startSaw' = tid
    /\ end' = FALSE
    /\ tid' = 1
    /\ cret' = 0
    /\ ppc' = "top"
    /\ task' = NULL
    /\ pend_intask' = NULL
    /\ taskp' = NULL
    /\ worked' = FALSE
    /\ iterLog' = <<>>
    /\ run0' = <<Len(deqLog), Len(accLog)>>
    /\ nthreads' = nthreads + 1
    /\ spawned' = spawned + 1
    /\ pollFailed' = FALSE
    /\ lost' = lost \cup ({pend_intask} \ {NULL})
    /\ UNCHANGED left
    /\ UNCHANGED <<SLEEPY_POLL, opsLimit, nfaults, inring, cb, arg, avail, used, callfd,
                   cpc, destroyed, uvars,
                   enqLog, deqLog, accLog, fired, spurious, waits>>

\* vring_poller_start with the pending slot kept across runs of the loop
\* (as if pend_intask were not a local of vring_poll)
vring_poller_start_KeepPending ==
    /\ cpc = "idle" /\ ~destroyed /\ nctl < MaxCtl /\ Ops < opsLimit
    /\ nctl' = nctl + 1
    /\ cfn' = "start"
    /\ startSaw' = tid
    /\ IF tid # 0
         THEN /\ cret' = 0
              /\ UNCHANGED <<tid, end, lvars, iterLog, run0, nfaults,
                             nthreads, spawned, pollFailed, lost, left>>
         ELSE /\ end' = FALSE
              /\ \/ /\ tid' = 1
                    /\ cret' = 0
                    /\ ppc' = "top"
                    /\ task' = NULL
                    /\ pend_intask' = pend_intask
                    /\ taskp' = NULL
                    /\ worked' = FALSE
                    /\ iterLog' = <<>>
                    /\ run0' = <<Len(deqLog), Len(accLog)>>
                    /\ nthreads' = nthreads + 1
                    /\ spawned' = spawned + 1
                    /\ pollFailed' = FALSE
                    /\ lost' = lost \cup ({pend_intask} \ {NULL})
                    /\ UNCHANGED left
                    /\ UNCHANGED nfaults
                 \/ /\ nfaults < MaxFaults /\ Ops + 1 < opsLimit
                    /\ nfaults' = nfaults + 1
                    /\ tid' \in {0, 1}
                    /\ cret' = -1
                    /\ pollFailed' = FALSE
                    /\ UNCHANGED <<lvars, iterLog, run0,
                                   nthreads, spawned, lost, left>>
    /\ UNCHANGED <<SLEEPY_POLL, opsLimit, inring, cb, arg, avail, used, callfd,
                   cpc, destroyed, uvars,
                   enqLog, deqLog, accLog, fired, spurious, waits>>

\* vring_poller_start, lines 165-179.  When pthread_create fails the content
\* of poller->tid is unspecified: it is left 0 or holds a stale handle.
vring_poller_start ==
    /\ cpc = "idle" /\ ~destroyed /\ nctl < MaxCtl /\ Ops < opsLimit
    /\ nctl' = nctl + 1
    /\ cfn' = "start"
    /\ startSaw' = tid
    /\ IF tid # 0
         THEN /\ cret' = 0
              /\ UNCHANGED <<tid, end, lvars, iterLog, run0, nfaults,
                             nthreads, spawned, pollFailed, lost, left>>
         ELSE /\ end' = FALSE
              /\ \/ /\ tid' = 1
                    /\ cret' = 0
                    /\ ppc' = "top"
                    /\ task' = NULL
                    /\ pend_intask' = NULL
                    /\ taskp' = NULL
                    /\ worked' = FALSE
                    /\ iterLog' = <<>>
                    /\ run0' = <<Len(deqLog), Len(accLog)>>
                    /\ nthreads' = nthreads + 1
                    /\ spawned' = spawned + 1
                    /\ pollFailed' = FALSE
                    /\ lost' = lost \cup ({pend_intask} \ {NULL})
                    /\ UNCHANGED left
                    /\ UNCHANGED nfaults
                 \/ /\ nfaults < MaxFaults /\ Ops + 1 < opsLimit
                    /\ nfaults' = nfaults + 1
                    /\ tid' \in {0, 1}
                    /\ cret' = -1
                    /\ pollFailed' = FALSE
                    /\ UNCHANGED <<lvars, iterLog, run0,
                                   nthreads, spawned, lost, left>>
    /\ UNCHANGED <<SLEEPY_POLL, opsLimit, inring, cb, arg, avail, used, callfd,
                   cpc, destroyed, uvars,
                   enqLog, deqLog, accLog, fired, spurious, waits>>

\* StopBody without the test of tid
StopBody_NoCheck(next_idle) ==
    /\ end' = TRUE
    /\ waits' = 0
    /\ cpc' = IF SLEEPY_POLL = 0 THEN "stop_kick" ELSE "stop_wait"

\* lines 187-190 of vring_poller_stop: return when tid == 0, else end = true
StopBody(next_idle) ==
    IF tid = 0
      THEN /\ cpc' = next_idle
           /\ UNCHANGED <<end, waits>>
      ELSE /\ end' = TRUE
           /\ waits' = 0
           /\ cpc' = IF SLEEPY_POLL = 0 THEN "stop_kick" ELSE "stop_wait"

\* vring_poller_stop, lines 184-190
vring_poller_stop ==
    /\ cpc = "idle" /\ ~destroyed /\ nctl < MaxCtl /\ Ops < opsLimit
    /\ nctl' = nctl + 1
    /\ cfn' = "stop"
    /\ StopBody("idle")
    /\ UNCHANGED <<SLEEPY_POLL, opsLimit, tvars, nfaults, tid, inring, cb, arg, avail, used, callfd,
                   lvars, cret, destroyed, uvars,
                   enqLog, deqLog, accLog, fired, iterLog, run0, spurious>>

\* lines 192-196: write(poller->vring->callfd, &event, sizeof (event)).
\* The program never uses the counter's value: a write makes it non-zero.
StopKick ==
    /\ cpc = "stop_kick"
    /\ callfd' = 1
    /\ cpc' = "stop_wait"
    /\ UNCHANGED <<SLEEPY_POLL, opsLimit, tvars, nfaults, tid, end, inring, cb, arg, avail, used,
                   lvars, cfn, cret, nctl, destroyed, uvars, hvars>>

\* StopJoin without the wait for tid to become 0
StopJoin_NoWait ==
    /\ cpc = "stop_wait"
    /\ cpc' = IF cfn = "destroy" THEN "destroy_free" ELSE "idle"
    /\ UNCHANGED <<SLEEPY_POLL, opsLimit, tvars, nfaults, pvars, lvars, cfn, cret, nctl, destroyed,
                   uvars, hvars>>

\* lines 198-200: while (poller->tid != 0) usleep(100);  then return
StopJoin ==
    /\ cpc = "stop_wait"
    /\ tid = 0
    /\ cpc' = IF cfn = "destroy" THEN "destroy_free" ELSE "idle"
    /\ UNCHANGED <<SLEEPY_POLL, opsLimit, tvars, nfaults, pvars, lvars, cfn, cret, nctl, destroyed,
                   uvars, hvars>>

\* vring_poller_destroy without the stop of a running poller (lines 85-86)
vring_poller_destroy_NoStop ==
    /\ cpc = "idle" /\ ~destroyed /\ nctl < MaxCtl /\ Ops < opsLimit
    /\ \A p \in Producers : upc[p] # "kick"
    /\ nctl' = nctl + 1
    /\ cfn' = "destroy"
    /\ cpc' = "destroy_free"
    /\ UNCHANGED <<SLEEPY_POLL, opsLimit, tvars, nfaults, pvars,
                   lvars, cret, destroyed, uvars, hvars>>

\* vring_poller_destroy, lines 82-86.  The caller makes sure that no
\* producer is inside vring_submit_task and that none enters it afterwards.
vring_poller_destroy ==
    /\ cpc = "idle" /\ ~destroyed /\ nctl < MaxCtl /\ Ops < opsLimit
    /\ \A p \in Producers : upc[p] # "kick"
    /\ nctl' = nctl + 1
    /\ cfn' = "destroy"
    /\ StopBody("destroy_free")
    /\ UNCHANGED <<SLEEPY_POLL, opsLimit, tvars, nfaults, tid, inring, cb, arg, avail, used, callfd,
                   lvars, cret, destroyed, uvars,
                   enqLog, deqLog, accLog, fired, iterLog, run0, spurious>>

\* lines 88-89: rte_ring_free(poller->inring); free(poller);
DestroyFree ==
    /\ cpc = "destroy_free"
    /\ destroyed' = TRUE
    /\ cpc' = "idle"
    /\ UNCHANGED <<SLEEPY_POLL, opsLimit, tvars, nfaults, pvars, lvars, cfn, cret, nctl, uvars, hvars>>

\* ------------------------------------------------------------- producers
\* the producer's record of its call is dropped when the call returns
Returned(p, rc) ==
    /\ upc' = [upc EXCEPT ![p] = "idle"]
    /\ utask' = [utask EXCEPT ![p] = NULL]
    /\ uctx' = [uctx EXCEPT ![p] = NULL]
    /\ ukind' = [ukind EXCEPT ![p] = "async"]
    /\ uret' = [uret EXCEPT ![p] = rc]

\* the producer stays inside its call, at position pos
Inside(p, t, c, k, pos) ==
    /\ upc' = [upc EXCEPT ![p] = pos]
    /\ utask' = [utask EXCEPT ![p] = t]
    /\ uctx' = [uctx EXCEPT ![p] = c]
    /\ ukind' = [ukind EXCEPT ![p] = IF k = "sync" THEN "sync" ELSE "async"]
    /\ UNCHANGED uret

\* SubmitEnqueue with the mutex of a synchronous call left locked when the
\* enqueue fails (line 269 missing)
SubmitEnqueue_NoUnlock(p, k) ==
    /\ upc[p] = "idle" /\ ncalls < MaxCalls /\ Ops < opsLimit /\ cfn # "destroy"
    /\ \A q \in Producers : q < p => upc[q] # "idle"
    /\ FreshTasks # {}
    /\ LET t == Min(FreshTasks)
           c == ncalls + 1
       IN /\ ncalls' = c
          /\ cb' = [cb EXCEPT ![t] = k]
          /\ arg' = [arg EXCEPT ![t] = c]
          /\ IF rte_ring_mp_enqueue_rc(inring) = 0
               THEN /\ inring' = Append(inring, t)
                    /\ enqLog' = Append(enqLog, <<t, k, c>>)
                    /\ mtx' = [mtx EXCEPT ![c] = IF k = "sync" THEN "caller" ELSE "free"]
                    /\ IF SLEEPY_POLL = 0
                         THEN Inside(p, t, c, k, "kick")
                         ELSE IF k = "sync"
                                THEN Inside(p, t, c, k, "sync_cwait")
                                ELSE Returned(p, 0)
               ELSE /\ Returned(p, -1)
                    /\ mtx' = [mtx EXCEPT ![c] = IF k = "sync" THEN "caller" ELSE "free"]
                    /\ UNCHANGED <<inring, enqLog>>
    /\ UNCHANGED <<SLEEPY_POLL, opsLimit, tvars, nfaults, tid, end, avail, used, callfd, lvars, cvars,
                   deqLog, accLog, fired, iterLog, run0, spurious, waits>>

\* SubmitEnqueue of a vring_submit_task that never writes the kick
\* (lines 220-224 missing)
SubmitEnqueue_NoKick(p, k) ==
    /\ upc[p] = "idle" /\ ncalls < MaxCalls /\ Ops < opsLimit /\ cfn # "destroy"
    /\ \A q \in Producers : q < p => upc[q] # "idle"
    /\ FreshTasks # {}
    /\ LET t == Min(FreshTasks)
           c == ncalls + 1
       IN /\ ncalls' = c
          /\ cb' = [cb EXCEPT ![t] = k]
          /\ arg' = [arg EXCEPT ![t] = c]
          /\ IF rte_ring_mp_enqueue_rc(inring) = 0
               THEN /\ inring' = Append(inring, t)
                    /\ enqLog' = Append(enqLog, <<t, k, c>>)
                    /\ mtx' = [mtx EXCEPT ![c] = IF k = "sync" THEN "caller" ELSE "free"]
                    /\ IF k = "sync"
                         THEN Inside(p, t, c, k, "sync_cwait")
                         ELSE Returned(p, 0)
               ELSE /\ Returned(p, -1)
                    /\ UNCHANGED <<inring, enqLog, mtx>>
    /\ UNCHANGED <<SLEEPY_POLL, opsLimit, tvars, nfaults, tid, end, avail, used, callfd, lvars, cvars,
                   deqLog, accLog, fired, iterLog, run0, spurious, waits>>

\* SubmitEnqueue of a vring_submit_task_sync that does not lock its mutex
\* before the enqueue (line 265 missing)
SubmitEnqueue_NoLock(p, k) ==
    /\ upc[p] = "idle" /\ ncalls < MaxCalls /\ Ops < opsLimit /\ cfn # "destroy"
    /\ \A q \in Producers : q < p => upc[q] # "idle"
    /\ FreshTasks # {}
    /\ LET t == Min(FreshTasks)
           c == ncalls + 1
       IN /\ ncalls' = c
          /\ cb' = [cb EXCEPT ![t] = k]
          /\ arg' = [arg EXCEPT ![t] = c]
          /\ IF rte_ring_mp_enqueue_rc(inring) = 0
               THEN /\ inring' = Append(inring, t)
                    /\ enqLog' = Append(enqLog, <<t, k, c>>)
                    /\ UNCHANGED mtx
                    /\ IF SLEEPY_POLL = 0
                         THEN Inside(p, t, c, k, "kick")
                         ELSE IF k = "sync"
                                THEN Inside(p, t, c, k, "sync_cwait")
                                ELSE Returned(p, 0)
               ELSE /\ Returned(p, -1)
                    /\ UNCHANGED <<inring, enqLog, mtx>>
    /\ UNCHANGED <<SLEEPY_POLL, opsLimit, tvars, nfaults, tid, end, avail, used, callfd, lvars, cvars,
                   deqLog, accLog, fired, iterLog, run0, spurious, waits>>

\* SubmitEnqueue with the kick written whether or not the enqueue succeeded
SubmitEnqueue_KickAlways(p, k) ==
    /\ upc[p] = "idle" /\ ncalls < MaxCalls /\ Ops < opsLimit /\ cfn # "destroy"
    /\ \A q \in Producers : q < p => upc[q] # "idle"
    /\ FreshTasks # {}
    /\ LET t == Min(FreshTasks)
           c == ncalls + 1
       IN /\ ncalls' = c
          /\ cb' = [cb EXCEPT ![t] = k]
          /\ arg' = [arg EXCEPT ![t] = c]
          /\ IF rte_ring_mp_enqueue_rc(inring) = 0
               THEN /\ inring' = Append(inring, t)
                    /\ enqLog' = Append(enqLog, <<t, k, c>>)
                    /\ mtx' = [mtx EXCEPT ![c] = IF k = "sync" THEN "caller" ELSE "free"]
                    /\ UNCHANGED callfd
                    /\ IF SLEEPY_POLL = 0
                         THEN Inside(p, t, c, k, "kick")
                         ELSE IF k = "sync"
                                THEN Inside(p, t, c, k, "sync_cwait")
                                ELSE Returned(p, 0)
               ELSE /\ Returned(p, -1)
                    /\ callfd' = 1
                    /\ UNCHANGED <<inring, enqLog, mtx>>
    /\ UNCHANGED <<SLEEPY_POLL, opsLimit, tvars, nfaults, tid, end, avail, used, lvars, cvars,
                   deqLog, accLog, fired, iterLog, run0, spurious, waits>>

\* vring_submit_task lines 215-218 (for a synchronous call preceded by
\* lines 262-265 and, on failure, followed by lines 269-270): set the task's
\* callback and context, enqueue.  k is the callback: "null", "user" or,
\* for vring_submit_task_sync, "sync".  Idle producer threads are
\* interchangeable: the lowest-numbered one makes the call.
SubmitEnqueue(p, k) ==
    /\ upc[p] = "idle" /\ ncalls < MaxCalls /\ Ops < opsLimit /\ cfn # "destroy"
    /\ \A q \in Producers : q < p => upc[q] # "idle"
    /\ FreshTasks # {}
    /\ LET t == Min(FreshTasks)
           c == ncalls + 1
       IN /\ ncalls' = c
          /\ cb' = [cb EXCEPT ![t] = k]
          /\ arg' = [arg EXCEPT ![t] = c]
          /\ IF rte_ring_mp_enqueue_rc(inring) = 0
               THEN /\ inring' = Append(inring, t)
                    /\ enqLog' = Append(enqLog, <<t, k, c>>)
                    /\ mtx' = [mtx EXCEPT ![c] = IF k = "sync" THEN "caller" ELSE "free"]
                    /\ IF SLEEPY_POLL = 0
                         THEN Inside(p, t, c, k, "kick")
                         ELSE IF k = "sync"
                                THEN Inside(p, t, c, k, "sync_cwait")
                                ELSE Returned(p, 0)
               ELSE /\ Returned(p, -1)
                    /\ UNCHANGED <<inring, enqLog, mtx>>
    /\ UNCHANGED <<SLEEPY_POLL, opsLimit, tvars, nfaults, tid, end, avail, used, callfd, lvars, cvars,
                   deqLog, accLog, fired, iterLog, run0, spurious, waits>>

\* lines 220-226: write(poller->vring->callfd, &kick, sizeof (kick)); return.
\* The write makes the event counter non-zero.
SubmitKick(p) ==
    /\ upc[p] = "kick"
    /\ callfd' = 1
    /\ IF ukind[p] = "sync"
         THEN /\ upc' = [upc EXCEPT ![p] = "sync_cwait"]
              /\ UNCHANGED <<utask, uctx, ukind, uret>>
         ELSE Returned(p, 0)
    /\ UNCHANGED <<SLEEPY_POLL, opsLimit, tvars, nfaults, tid, end, inring, cb, arg, avail, used,
                   lvars, cvars, mtx, ncalls, hvars>>

\* line 272: pthread_cond_wait(&cv, &mtx) releases the mutex and blocks
SyncCondWait(p) ==
    /\ upc[p] = "sync_cwait"
    /\ mtx' = [mtx EXCEPT ![uctx[p]] = "free"]
    /\ upc' = [upc EXCEPT ![p] = "sync_blocked"]
    /\ UNCHANGED <<SLEEPY_POLL, opsLimit, tvars, nfaults, pvars, lvars, cvars, utask, uctx, ukind,
                   uret, ncalls, hvars>>

\* pthread_cond_wait may wake up without any signal (POSIX spurious wakeup)
SyncSpuriousWakeup(p) ==
    /\ upc[p] = "sync_blocked"
    /\ nfaults < MaxFaults /\ Ops < opsLimit
    /\ nfaults' = nfaults + 1
    /\ upc' = [upc EXCEPT ![p] = "sync_woken"]
    /\ spurious' = spurious \cup {uctx[p]}
    /\ UNCHANGED <<SLEEPY_POLL, opsLimit, tvars, pvars, lvars, cvars, utask, uctx, ukind,
                   uret, mtx, ncalls,
                   enqLog, deqLog, accLog, fired, iterLog, run0, waits>>

\* lines 272-278: a woken pthread_cond_wait re-acquires the mutex; then
\* pthread_mutex_unlock(&mtx); return (0);  The mutex ends up free.
SyncReturn(p) ==
    /\ upc[p] = "sync_woken"
    /\ mtx[uctx[p]] = "free"
    /\ spurious' = spurious \ {uctx[p]}
    /\ Returned(p, 0)
    /\ UNCHANGED <<SLEEPY_POLL, opsLimit, tvars, nfaults, pvars, lvars, cvars, mtx, ncalls,
                   enqLog, deqLog, accLog, fired, iterLog, run0, waits>>

\* vring_submit_task called directly, with the caller's callback
vring_submit_task(p) ==
    \/ SubmitEnqueue(p, "user")
    \/ SubmitKick(p)

\* vring_submit_task_sync
vring_submit_task_sync(p) ==
    \/ SubmitEnqueue(p, "sync")
    \/ SyncCondWait(p)
    \/ SyncSpuriousWakeup(p)
    \/ SyncReturn(p)

\* steps of a producer that is inside a call (the scheduler runs them)
ProducerProgress(p) ==
    SubmitKick(p) \/ SyncCondWait(p) \/ SyncReturn(p)

\* steps of the controlling thread inside stop or destroy
ControlProgress == StopKick \/ StopJoin \/ DestroyFree

Next ==
    \/ vring_poll
    \/ vring_poller_start
    \/ vring_poller_stop
    \/ StopKick
    \/ StopJoin
    \/ vring_poller_destroy
    \/ DestroyFree
    \/ \E p \in Producers : vring_submit_task(p)
    \/ \E p \in Producers : vring_submit_task_sync(p)
    \/ DeviceComplete

Spec == Init /\ [][Next]_vars

\* the same program, with room for a stop and a second start
RestartSpec == RestartInit /\ [][Next]_vars

\* Every thread that can take a step is eventually scheduled, and the device
\* eventually finishes a task it holds.
FairSpec ==
    /\ LiveInit /\ [][Next]_vars
    /\ WF_vars(vring_poll)
    /\ WF_vars(ControlProgress)
    /\ \A p \in Producers : WF_vars(ProducerProgress(p))
    /\ WF_vars(DeviceComplete)

\* ------------------------------------------------------------ vocabulary
\* a poll thread exists
ThreadAlive == ppc # "done"

\* the loop is running and has not been told to stop
Running == ppc \notin {"done", "exit", "cb_hung"} /\ ~end

\* the tasks the current run of the loop dequeued / got accepted by the vring
RunDeq == SubSeq(deqLog, run0[1] + 1, Len(deqLog))
RunAcc == SubSeq(accLog, run0[2] + 1, Len(accLog))

\* tasks held by the loop outside the input ring and outside the vring
Held == {t \in Tasks : t = pend_intask \/ (ppc = "put" /\ t = taskp)}

IsPrefix(a, b) == Len(a) <= Len(b) /\ \A i \in 1..Len(a) : a[i] = b[i]

\* call c was enqueued successfully
Enqueued(c) == \E i \in 1..Len(enqLog) : enqLog[i][3] = c

\* the task of call c is in the input ring, held by the loop or in the vring
InPipeline(c) ==
    \E i \in 1..Len(enqLog) :
        /\ enqLog[i][3] = c
        /\ LET t == enqLog[i][1]
           IN \/ t \in Range(inring)
              \/ t \in Held
              \/ t \in avail
              \/ t \in Range(used)
              \/ (task = t /\ ppc = "cb")

\* ---------------------------------------------------------------- claims

\* C1 (no task loss): every callback invocation carries a task, callback and
\* context that were submitted together, no context is called back twice,
\* and while the loop keeps running every task that is in the input ring,
\* held by the loop or in the vring eventually has its callback invoked.
Thm_C1 ==
    /\ [](\A c \in Calls :
            /\ Len(fired[c]) <= 1
            /\ \A j \in 1..Len(fired[c]) :
                 \E i \in 1..Len(enqLog) :
                    enqLog[i] = <<fired[c][j][1], fired[c][j][2], c>>)
    /\ \A c \in Calls :
         (InPipeline(c) /\ Running) ~> (fired[c] # <<>> \/ ~Running)

\* three submissions were made and the callback of each has fired once
Wit_C1 == ncalls = 3 /\ \A c \in 1..3 : Len(fired[c]) = 1

\* C2 (synchronous round-trip): vring_submit_task_sync returns 0 only after
\* the callback of its own task was invoked by the poll loop.
Cex_C2 ==
    [][\A p \in Producers :
          (upc[p] = "sync_woken" /\ upc'[p] = "idle")
             => fired[uctx[p]] # <<>>]_vars

\* C3 (pending-slot bound): the live loop holds at most one task outside the
\* input ring and the vring, and the tasks it holds are exactly the ones it
\* dequeued and the vring has not accepted.
Thm_C3 ==
    ThreadAlive =>
        /\ Cardinality(Held) <= 1
        /\ (ppc = "put" => pend_intask = NULL)
        /\ Held = Range(RunDeq) \ Range(RunAcc)

\* the slot is occupied by the second task the loop dequeued
Wit_C3 == ThreadAlive /\ pend_intask # NULL /\ Len(RunDeq) >= 2

\* C4: every step that takes a task out of the input ring starts in a state
\* where the pending-retry slot is empty.
Thm_C4 ==
    [][(Len(inring') < Len(inring) \/ Len(deqLog') > Len(deqLog))
          => pend_intask = NULL]_vars

\* the loop is at the admission step with the slot occupied and a task queued
Wit_C4 == ppc = "admit" /\ pend_intask # NULL /\ inring # <<>>

\* C5 (completion priority): an iteration starts with the fetch of a finished
\* task; when one was fetched its callback has been invoked, and has
\* returned, before the iteration dequeues a task or submits it to the vring.
Thm_C5 ==
    /\ iterLog # <<>> => iterLog[1] \in {"got", "none"}
    /\ \A i \in 1..Len(iterLog) :
          (iterLog[i] \in {"deq", "put"} /\ iterLog[1] = "got")
             => (i > 2 /\ iterLog[2] = "cb")
    /\ "deq" \in Range(iterLog)
          => ppc \notin {"get", "cb", "cb_lock", "cb_signal", "retry"}

\* an iteration fetched a finished task, called back and then dequeued
Wit_C5 ==
    /\ Len(iterLog) >= 3
    /\ iterLog[1] = "got" /\ iterLog[2] = "cb"
    /\ "deq" \in Range(iterLog)

\* C6 (FIFO admission): the loop dequeues in queue order, at most once per
\* iteration; the vring accepts the tasks of a run in the order the run
\* dequeued them, and a refused task is accepted before the next is dequeued.
Thm_C6 ==
    /\ IsPrefix(deqLog, [i \in 1..Len(enqLog) |-> enqLog[i][1]])
    /\ IsPrefix(RunAcc, RunDeq)
    /\ Len(RunDeq) - Len(RunAcc) <= 1
    /\ Cardinality({i \in 1..Len(iterLog) : iterLog[i] = "deq"}) <= 1
    /\ pend_intask # NULL => RunDeq = Append(RunAcc, pend_intask)

\* two tasks were accepted in order and a third waits in the slot
Wit_C6 == Len(RunAcc) = 2 /\ pend_intask # NULL

\* the producer that makes the next call
Caller == Min({p \in Producers : upc[p] = "idle"})

\* C7 (backpressure): the input ring never holds more than its capacity and
\* always holds exactly the enqueued tasks not yet dequeued, in order; a
\* rejected call's context is never called back; a submit on a full ring
\* returns -1 and changes neither the ring nor the event descriptor.
Thm_C7 ==
    /\ [](/\ Len(inring) <= InringCap
          /\ inring = [i \in 1..(Len(enqLog) - Len(deqLog)) |->
                          enqLog[Len(deqLog) + i][1]]
          /\ \A c \in 1..ncalls : ~Enqueued(c) => fired[c] = <<>>)
    /\ [][(ncalls' = ncalls + 1 /\ Len(inring) >= InringCap)
            => /\ inring' = inring
               /\ enqLog' = enqLog
               /\ callfd' = callfd
               /\ fired' = fired
               /\ upc'[Caller] = "idle"
               /\ uret'[Caller] = -1]_vars

\* a call was rejected and the ring is still full
Wit_C7 ==
    /\ \E p \in Producers : upc[p] = "idle" /\ uret[p] = -1
    /\ Len(inring) = InringCap
    /\ ncalls > Len(enqLog)

Thm_C9 ==
    /\ []((cfn = "stop" /\ cpc = "idle") => (ppc = "done" /\ tid = 0))
    /\ [][ppc = "done"
            => /\ deqLog' = deqLog /\ accLog' = accLog /\ fired' = fired
               /\ Len(used') >= Len(used)
               /\ Len(inring') >= Len(inring)
               /\ (ppc' # "done" => (cfn' = "start" /\ nctl' = nctl + 1))]_vars

\* stop has returned after ending a loop that had dispatched a task
Wit_C9 == cfn = "stop" /\ cpc = "idle" /\ end /\ accLog # <<>>

\* stop has set the flag and waits for a thread that exists
StopPending == cpc \in {"stop_kick", "stop_wait"} /\ ThreadAlive

\* C10 (stop terminates promptly): with the flag set the loop starts no new
\* iteration body and enters at most one idle wait; unless a callback never
\* returns, the stop call that waits for the thread eventually returns.
Thm_C10 ==
    /\ [](end => waits <= 1)
    /\ [][(ppc = "top" /\ end) => ppc' \in {"top", "exit"}]_vars
    /\ StopPending ~> (cpc \notin {"stop_kick", "stop_wait"} \/ ppc = "cb_hung")

\* the loop sits in its one idle wait after the flag was set
Wit_C10 == cpc = "stop_wait" /\ ppc \in {"poll", "sleep"} /\ waits = 1

\* C11 (single loop thread): at most one poll thread exists at any time;
\* vring_poller_start called while a thread exists creates none, returns 0
\* and leaves the loop alone; every fetch from the vring, submission to the
\* vring, dequeue and callback is a step of that one thread.
Thm_C11 ==
    /\ [](/\ nthreads <= 1
          /\ nthreads = (IF ThreadAlive THEN 1 ELSE 0)
          /\ (ThreadAlive => tid # 0))
    /\ [][(cfn' = "start" /\ nctl' = nctl + 1 /\ ThreadAlive)
            => /\ cret' = 0
               /\ UNCHANGED <<nthreads, spawned, lvars, tid, end>>]_vars
    /\ [][(deqLog' # deqLog \/ accLog' # accLog \/ fired' # fired
              \/ Len(used') < Len(used))
            => (nthreads = 1 /\ nthreads' = 1 /\ ppc' # ppc)]_vars

\* start has returned 0 on a poller whose loop was running and keeps running
Wit_C11 ==
    /\ cfn = "start" /\ cpc = "idle" /\ startSaw = 1 /\ cret = 0
    /\ ThreadAlive /\ spawned = 1 /\ accLog # <<>>

\* C12: a vring_submit_task_sync call made while the input ring is full
\* returns -1 in the same step, without waiting, with its mutex unlocked and
\* nothing enqueued; the callback of a rejected call is never invoked.
Thm_C12 ==
    /\ [][(ncalls' = ncalls + 1 /\ cb'[Min(FreshTasks)] = "sync"
              /\ Len(inring) >= InringCap)
            => /\ upc'[Caller] = "idle"
               /\ uret'[Caller] = -1
               /\ mtx'[ncalls'] = "free"
               /\ inring' = inring
               /\ fired' = fired]_vars
    /\ [](\A c \in 1..ncalls :
             ~Enqueued(c) => (fired[c] = <<>> /\ mtx[c] = "free"
                               /\ ~FrameLive(c)))

\* the last call with the next free task was synchronous and was rejected
Wit_C12 ==
    /\ \E t \in FreshTasks : t = Min(FreshTasks) /\ cb[t] = "sync"
    /\ \E p \in Producers : upc[p] = "idle" /\ uret[p] = -1
    /\ Len(inring) = InringCap
    /\ ncalls > Len(enqLog)

\* the iteration body ends in this step (line 135 is reached)
BodyEnds == ppc \in {"admit", "put"} /\ ppc' \in {"top", "poll", "sleep"}

\* C13 as stated (pending-retry progress): every iteration that starts with
\* the slot occupied re-offers the pending task to the vring, whether or not
\* it fetched a finished task.
Cex_C13 ==
    [][(BodyEnds /\ ppc = "admit" /\ pend_intask # NULL)
          => "retry" \in Range(iterLog)]_vars

\* C13 as amended: an iteration that starts with the slot occupied re-offers
\* the pending task exactly when it fetched a finished task; the retry clears
\* the slot exactly when the vring accepts the task; and while the loop keeps
\* running a pending task is eventually accepted by the vring.
Thm_C13 ==
    /\ [][(BodyEnds /\ ppc = "admit" /\ pend_intask # NULL)
            => ("retry" \in Range(iterLog) <=> iterLog[1] = "got")]_vars
    /\ [][(ppc = "retry" /\ ppc' # "retry" /\ pend_intask # NULL)
            => /\ iterLog' = Append(iterLog, "retry")
               /\ IF Cardinality(avail) + Len(used) < VringSize
                    THEN /\ pend_intask' = NULL
                         /\ accLog' = Append(accLog, pend_intask)
                         /\ pend_intask \in avail'
                    ELSE /\ pend_intask' = pend_intask
                         /\ accLog' = accLog]_vars
    /\ [][(pend_intask # NULL /\ pend_intask' = NULL /\ ppc' # "top")
            => (ppc = "retry" /\ pend_intask \in avail')]_vars
    /\ \A t \in Tasks :
         (pend_intask = t /\ Running) ~> (t \in Range(RunAcc) \/ ~Running)

\* a retry after a completion has just moved the pending task into the vring
Wit_C13 ==
    /\ ppc = "admit" /\ pend_intask = NULL
    /\ "retry" \in Range(iterLog)
    /\ Len(RunAcc) >= 2

\* C14 (idle wait only without work): the iteration body is followed by the
\* idle wait exactly when the iteration fetched no finished task and
\* dequeued nothing; nothing is dequeued only when the input ring is empty
\* or the pending slot is occupied; the loop is in the idle wait only after
\* such an iteration.
Thm_C14 ==
    /\ [][BodyEnds
            => (ppc' \in {"poll", "sleep"}
                  <=> (iterLog[1] = "none" /\ "deq" \notin Range(iterLog)))]_vars
    /\ [][(BodyEnds /\ ppc = "admit")
            => (pend_intask # NULL \/ inring = <<>>)]_vars
    /\ [](ppc \in {"poll", "sleep"} => iterLog = <<"none", "wait">>)
    /\ []((ppc = "poll") => SLEEPY_POLL = 0)
    /\ []((ppc = "sleep") => SLEEPY_POLL # 0)

\* the loop waits although the input ring holds a task: the slot is occupied
Wit_C14 ==
    /\ ppc \in {"poll", "sleep"}
    /\ pend_intask # NULL /\ inring # <<>>

\* the loop has left because poll() failed and its thread is gone
FailedStopped == pollFailed /\ ppc = "done"

\* C15 (wait failure is fatal to the loop): after a failed poll() the loop
\* executes no further step of its body, the thread clears tid and is gone;
\* from then until the next thread is created no task is dequeued, submitted
\* to the vring or called back and the input ring keeps its tasks; a stop
\* called then returns at once and a start creates a new loop thread (unless
\* pthread_create itself fails).
Thm_C15 ==
    /\ [](pollFailed => ppc \in {"exit", "done"})
    /\ [](FailedStopped => (tid = 0 /\ nthreads = 0))
    /\ pollFailed ~> FailedStopped
    /\ [][(pollFailed /\ pollFailed')
            => /\ deqLog' = deqLog /\ accLog' = accLog /\ fired' = fired
               /\ IsPrefix(inring, inring')
               /\ Len(used') >= Len(used)]_vars
    /\ [][(FailedStopped /\ cpc = "idle" /\ nctl' = nctl + 1 /\ cfn' = "stop")
            => /\ cpc' = "idle"
               /\ UNCHANGED <<tid, end, inring, callfd, lvars>>]_vars
    /\ [][(FailedStopped /\ cpc = "idle" /\ nctl' = nctl + 1 /\ cfn' = "start"
              /\ nfaults' = nfaults)
            => /\ spawned' = spawned + 1 /\ nthreads' = 1
               /\ ppc' = "top" /\ tid' # 0 /\ ~end' /\ cret' = 0
               /\ inring' = inring]_vars

\* poll() failed with a task still queued, and a later stop has returned
Wit_C15 ==
    /\ FailedStopped /\ inring # <<>>
    /\ cfn = "stop" /\ cpc = "idle" /\ nctl = 2

\* the loop has left after a stop request and no new one was started
StoppedByStop == ppc = "done" /\ end

\* C16 (shutdown does not drain): once the loop has left after a stop, the
\* tasks it left in the input ring or in the pending slot are neither
\* submitted to the vring nor called back, and a vring_submit_task_sync call
\* whose task is among them does not return while the poller stays stopped.
Cex_C16 ==
    /\ [][(StoppedByStop /\ ppc' = "done")
            => /\ accLog' = accLog /\ fired' = fired /\ deqLog' = deqLog
               /\ avail' \subseteq avail
               /\ IsPrefix(inring, inring')
               /\ pend_intask' = pend_intask]_vars
    /\ [][\A p \in Producers :
            (/\ StoppedByStop /\ ppc' = "done"
             /\ ukind[p] = "sync" /\ upc[p] # "idle"
             /\ utask[p] \in left)
               => upc'[p] # "idle"]_vars

\* C17 (destroy never tears down a running poller): vring_poller_destroy
\* called while tid is non-zero first sets the flag and waits for the thread;
\* when it is about to free, when it frees, and ever after, no poll thread
\* exists, so none is at any step of the loop.
Thm_C17 ==
    /\ [][(cpc = "idle" /\ cfn' = "destroy" /\ nctl' = nctl + 1 /\ tid # 0)
            => (end' /\ cpc' \in {"stop_kick", "stop_wait"} /\ ~destroyed')]_vars
    /\ [][(destroyed' /\ ~destroyed)
            => (ppc = "done" /\ nthreads = 0 /\ tid = 0)]_vars
    /\ [](cpc = "destroy_free" => (ppc = "done" /\ nthreads = 0))
    /\ [](destroyed => (ppc = "done" /\ nthreads = 0))

\* destroy was called on a poller whose loop had dispatched a task, stopped
\* the loop and freed the poller
Wit_C17 ==
    /\ destroyed /\ cfn = "destroy" /\ nctl = 2
    /\ end /\ spawned = 1 /\ accLog # <<>>

\* a producer has enqueued its task and has not yet written its kick
KickPending == \E p \in Producers : upc[p] = "kick"

\* C18 (no lost wake-up in event-descriptor mode): whenever the loop is
\* blocked in poll() with the pending slot empty and a task in the input
\* ring, the event counter is non-zero or a producer is between its enqueue
\* and its kick; a producer's kick follows its enqueue, the counter is reset
\* only by the loop leaving poll(), and the loop then goes back to the top
\* of the loop and runs both steps before it can wait again.
Thm_C18 ==
    /\ []((ppc = "poll" /\ pend_intask = NULL /\ inring # <<>>)
            => (callfd # 0 \/ KickPending))
    /\ [][\A p \in Producers :
            (upc[p] = "kick" /\ upc'[p] # "kick")
               => (callfd' # 0 /\ \E i \in 1..Len(enqLog) :
                                     enqLog[i][1] = utask[p])]_vars
    /\ [][(callfd # 0 /\ callfd' = 0) => (ppc = "poll" /\ ppc' = "top")]_vars
    /\ [][(ppc = "poll" /\ ppc' # "poll" /\ callfd # 0 /\ nfaults' = nfaults)
            => callfd' = 0]_vars
    /\ [](ppc = "poll" => (SLEEPY_POLL = 0 /\ ~worked /\ iterLog[1] = "none"))

\* the loop is blocked in poll(), a task was enqueued meanwhile and its
\* producer has not written the kick yet
Wit_C18 ==
    /\ ppc = "poll" /\ ~end /\ pend_intask = NULL /\ inring # <<>>
    /\ callfd = 0 /\ KickPending

\* C19 (no lost signal in the synchronous rendezvous): the caller holds its
\* mutex from the enqueue until pthread_cond_wait releases it; the callback
\* signals only with the mutex held, and then the caller is blocked in the
\* wait (or has been woken spuriously); a blocked caller is woken only by the
\* signal of its own callback (or spuriously), at most once, and returns
\* with the mutex unlocked; once the callback of a call has been invoked,
\* the caller returns.
Thm_C19 ==
    /\ [](\A p \in Producers :
            (ukind[p] = "sync" /\ upc[p] \in {"kick", "sync_cwait"})
               => mtx[uctx[p]] = "caller")
    /\ [](ppc = "cb_signal"
            => /\ mtx[arg[task]] = "poller"
               /\ FrameLive(arg[task])
               /\ \/ Waiters(arg[task]) # {}
                  \/ /\ arg[task] \in spurious
                     /\ \E p \in Producers :
                           uctx[p] = arg[task] /\ upc[p] = "sync_woken")
    /\ [][\A p \in Producers :
            (upc[p] = "sync_blocked" /\ upc'[p] = "sync_woken")
               => \/ (ppc = "cb_signal" /\ arg[task] = uctx[p])
                  \/ uctx[p] \in spurious']_vars
    /\ [][\A p \in Producers :
            (ukind[p] = "sync" /\ upc[p] # "idle" /\ upc'[p] = "idle")
               => (mtx'[uctx[p]] = "free" /\ upc[p] = "sync_woken")]_vars
    /\ [](\A c \in Calls : Len(fired[c]) <= 1)
    /\ \A c \in Calls : (fired[c] # <<>> /\ FrameLive(c)) ~> ~FrameLive(c)

\* the task has completed and its callback waits for the mutex, which the
\* caller still holds because it has not reached pthread_cond_wait
Wit_C19 ==
    /\ ppc = "cb_lock"
    /\ \E p \in Producers :
          /\ uctx[p] = arg[task] /\ ukind[p] = "sync"
          /\ upc[p] \in {"kick", "sync_cwait"}
          /\ mtx[uctx[p]] = "caller"

\* C20 (restart asymmetry): creating a loop leaves the input ring as it is
\* and starts with the pending slot empty; the tasks are dequeued in the
\* order they were enqueued across all runs, so what the old loop left in
\* the input ring is still queued or was dequeued by the new loop; a task
\* that was in the pending slot of a loop that exited is from then on in
\* neither the input ring, the slot nor the vring, was never accepted by the
\* vring and its callback is never invoked.
Thm_C20 ==
    /\ [][spawned' = spawned + 1
            => (inring' = inring /\ pend_intask' = NULL /\ taskp' = NULL
                /\ avail' = avail /\ used' = used)]_vars
    /\ [](IsPrefix(deqLog, [i \in 1..Len(enqLog) |-> enqLog[i][1]]))
    /\ []((ThreadAlive /\ spawned >= 2)
            => \A t \in left \ lost :
                  t \in Range(inring) \/ t \in Range(RunDeq))
    /\ [](\A t \in lost :
            /\ t \in Range(deqLog)
            /\ t \notin Range(inring) /\ t \notin Held /\ t # task
            /\ t \notin avail /\ t \notin Range(used)
            /\ t \notin Range(accLog)
            /\ \A c \in Calls : \A j \in 1..Len(fired[c]) : fired[c][j][1] # t)

\* after a stop and a start the new loop has dequeued a task the old loop
\* left in the input ring, while the task the old loop held in its pending
\* slot is gone
Wit_C20 ==
    /\ ThreadAlive /\ spawned = 2 /\ lost # {}
    /\ \E t \in left \ lost : t \in Range(RunDeq)

TypeOK ==
    /\ tid \in {0, 1}
    /\ end \in BOOLEAN
    /\ callfd \in {0, 1}
    /\ Range(inring) \subseteq Tasks
    /\ pend_intask \in Tasks \cup {NULL}
    /\ Ops <= opsLimit

====
